---- MODULE Spec2Model ----
(***************************************************************************)
(* WeChat AI assistant: the callback codec (signature, envelope), the      *)
(* message decoder, the HTTP callback handlers, the session manager, the   *)
(* iFlow backend with its per-user workspaces and the agent subprocess.    *)
(*                                                                         *)
(* Text is a sequence of Unicode code points, a byte string a sequence of  *)
(* numbers in 0..255.  A Python dict is a function whose DOMAIN is its key *)
(* set.  A call that can raise returns a record with a field "raised".     *)
(***************************************************************************)
EXTENDS Integers, Sequences, FiniteSets, TLC

(***************************************************************************)
(* Python primitives                                                       *)
(***************************************************************************)

Min(a, b) == IF a <= b THEN a ELSE b

\* s[a:b] for 0 <= a, b : the elements a+1 .. min(b, len(s))
Slice(s, a, b) ==
    LET hi == Min(b, Len(s))
    IN  IF a >= hi THEN <<>> ELSE [i \in 1..(hi - a) |-> s[a + i]]

\* s[:-n] for n >= 0 ; Python reads s[:-0] as s[:0], the empty string
DropLast(s, n) ==
    IF n = 0 \/ n >= Len(s) THEN <<>> ELSE Slice(s, 0, Len(s) - n)

\* "".join(list)
RECURSIVE join(_)
join(list) == IF list = <<>> THEN <<>> ELSE list[1] \o join(Tail(list))

\* a <= b for str : lexicographic by code point, a proper prefix is smaller
StrLeq(a, b) ==
    \/ \E i \in 1..Min(Len(a), Len(b)) :
          /\ \A j \in 1..(i - 1) : a[j] = b[j]
          /\ a[i] < b[i]
    \/ /\ Len(a) <= Len(b)
       /\ \A j \in 1..Len(a) : a[j] = b[j]

RECURSIVE InsertSorted(_, _)
InsertSorted(x, s) ==
    IF s = <<>> THEN <<x>>
    ELSE IF StrLeq(x, s[1]) THEN <<x>> \o s
    ELSE <<s[1]>> \o InsertSorted(x, Tail(s))

\* list.sort() / sorted(list) on a list of str
RECURSIVE sorted(_)
sorted(list) ==
    IF list = <<>> THEN <<>> ELSE InsertSorted(list[1], sorted(Tail(list)))

\* str.replace(old, new) for single characters
replace(s, old, new) == [i \in 1..Len(s) |-> IF s[i] = old THEN new ELSE s[i]]

\* Python's str.strip() whitespace, restricted to the ASCII part
IsSpace(c) == c \in {9, 10, 11, 12, 13, 28, 29, 30, 31, 32}

RECURSIVE lstrip(_)
lstrip(s) == IF s # <<>> /\ IsSpace(s[1]) THEN lstrip(Tail(s)) ELSE s

RECURSIVE rstrip(_)
rstrip(s) ==
    IF s # <<>> /\ IsSpace(s[Len(s)]) THEN rstrip(SubSeq(s, 1, Len(s) - 1)) ELSE s

strip(s) == rstrip(lstrip(s))

startswith(s, p) == Len(p) <= Len(s) /\ SubSeq(s, 1, Len(p)) = p

\* str.encode() : UTF-8
utf8_encode_cp(c) ==
    IF c < 128 THEN <<c>>
    ELSE IF c < 2048 THEN <<192 + (c \div 64), 128 + (c % 64)>>
    ELSE IF c < 65536
         THEN <<224 + (c \div 4096), 128 + ((c \div 64) % 64), 128 + (c % 64)>>
    ELSE <<240 + (c \div 262144), 128 + ((c \div 4096) % 64),
           128 + ((c \div 64) % 64), 128 + (c % 64)>>

RECURSIVE utf8_encode(_)
utf8_encode(s) ==
    IF s = <<>> THEN <<>> ELSE utf8_encode_cp(s[1]) \o utf8_encode(Tail(s))

IsCont(b) == b >= 128 /\ b < 192

\* bytes.decode() : strict UTF-8 ; [raised, text]
RECURSIVE utf8_decode(_)
utf8_decode(b) ==
    IF b = <<>> THEN [raised |-> FALSE, text |-> <<>>]
    ELSE
      LET n == Len(b)
          width == IF b[1] < 128 THEN 1
                   ELSE IF b[1] >= 194 /\ b[1] < 224 THEN 2
                   ELSE IF b[1] >= 224 /\ b[1] < 240 THEN 3
                   ELSE IF b[1] >= 240 /\ b[1] < 245 THEN 4
                   ELSE 0
          wellFormed == /\ width > 0
                        /\ width <= n
                        /\ \A i \in 2..width : IsCont(b[i])
          cp == IF width = 1 THEN b[1]
                ELSE IF width = 2 THEN (b[1] - 192) * 64 + (b[2] - 128)
                ELSE IF width = 3
                     THEN (b[1] - 224) * 4096 + (b[2] - 128) * 64 + (b[3] - 128)
                ELSE (b[1] - 240) * 262144 + (b[2] - 128) * 4096
                     + (b[3] - 128) * 64 + (b[4] - 128)
          scalar == /\ (width = 3 => cp >= 2048 /\ ~(cp >= 55296 /\ cp < 57344))
                    /\ (width = 4 => cp >= 65536 /\ cp < 1114112)
      IN  IF ~wellFormed THEN [raised |-> TRUE, text |-> <<>>]
          ELSE IF ~scalar THEN [raised |-> TRUE, text |-> <<>>]
          ELSE LET rest == utf8_decode(Slice(b, width, n))
               IN  IF rest.raised THEN rest
                   ELSE [raised |-> FALSE, text |-> <<cp>> \o rest.text]

\* struct.pack("<I", n), the bytes in the other order
pack_le32(n) ==
    <<n % 256, (n \div 256) % 256, (n \div 65536) % 256, (n \div 16777216) % 256>>

\* struct.pack(">I", n)
pack_be32(n) ==
    <<(n \div 16777216) % 256, (n \div 65536) % 256, (n \div 256) % 256, n % 256>>

\* an unpack that reads the missing bytes of a short field as zero
unpack_be32_short(b) ==
    [raised |-> FALSE,
     value  |-> (IF Len(b) >= 1 THEN b[1] * 16777216 ELSE 0)
                + (IF Len(b) >= 2 THEN b[2] * 65536 ELSE 0)
                + (IF Len(b) >= 3 THEN b[3] * 256 ELSE 0)
                + (IF Len(b) >= 4 THEN b[4] ELSE 0)]

\* struct.unpack(">I", b)[0] ; raises struct.error unless len(b) = 4
unpack_be32(b) ==
    IF Len(b) # 4 THEN [raised |-> TRUE, value |-> 0]
    ELSE [raised |-> FALSE,
          value  |-> b[1] * 16777216 + b[2] * 65536 + b[3] * 256 + b[4]]

\* the base64 alphabet : value of an ASCII character, -1 outside the alphabet
b64_value(c) ==
    IF c >= 65 /\ c <= 90 THEN c - 65
    ELSE IF c >= 97 /\ c <= 122 THEN c - 71
    ELSE IF c >= 48 /\ c <= 57 THEN c + 4
    ELSE IF c = 43 THEN 62
    ELSE IF c = 47 THEN 63
    ELSE -1

b64_char(v) ==
    IF v < 26 THEN v + 65
    ELSE IF v < 52 THEN v + 71
    ELSE IF v < 62 THEN v - 4
    ELSE IF v = 62 THEN 43
    ELSE 47

\* base64.b64encode(data).decode()
RECURSIVE b64encode(_)
b64encode(d) ==
    IF d = <<>> THEN <<>>
    ELSE IF Len(d) = 1
         THEN <<b64_char(d[1] \div 4), b64_char((d[1] % 4) * 16), 61, 61>>
    ELSE IF Len(d) = 2
         THEN <<b64_char(d[1] \div 4),
                b64_char((d[1] % 4) * 16 + d[2] \div 16),
                b64_char((d[2] % 16) * 4), 61>>
    ELSE <<b64_char(d[1] \div 4),
           b64_char((d[1] % 4) * 16 + d[2] \div 16),
           b64_char((d[2] % 16) * 4 + d[3] \div 64),
           b64_char(d[3] % 64)>> \o b64encode(Slice(d, 3, Len(d)))

\* one quantum of four characters, the last of a string may end in padding
b64_quad(q) ==
    LET v == [i \in 1..4 |-> b64_value(q[i])]
    IN  IF q[3] = 61 /\ q[4] = 61
        THEN <<v[1] * 4 + v[2] \div 16>>
        ELSE IF q[4] = 61
        THEN <<v[1] * 4 + v[2] \div 16, (v[2] % 16) * 16 + v[3] \div 4>>
        ELSE <<v[1] * 4 + v[2] \div 16, (v[2] % 16) * 16 + v[3] \div 4,
               (v[3] % 4) * 64 + v[4]>>

RECURSIVE b64_quads(_)
b64_quads(s) ==
    IF s = <<>> THEN <<>> ELSE b64_quad(Slice(s, 0, 4)) \o b64_quads(Slice(s, 4, Len(s)))

\* base64.b64decode(text) (validate=False) : characters outside the alphabet
\* are discarded, a string that is not whole quanta raises binascii.Error.
\* Padding is read at the end of the string only.
b64decode(text) ==
    LET kept == SelectSeq(text, LAMBDA c : b64_value(c) >= 0 \/ c = 61)
        n    == Len(kept)
        pads == IF n >= 2 /\ kept[n] = 61 /\ kept[n - 1] = 61 THEN 2
                ELSE IF n >= 1 /\ kept[n] = 61 THEN 1 ELSE 0
        body == Slice(kept, 0, n - pads)
    IN  IF n % 4 # 0 \/ \E i \in 1..Len(body) : body[i] = 61
        THEN [raised |-> TRUE, data |-> <<>>]
        ELSE [raised |-> FALSE, data |-> b64_quads(kept)]

(***************************************************************************)
(* WeChatCrypto (src/wechat/crypto.py ; src/wechat.py holds the same code) *)
(***************************************************************************)

\* self.token : the configured receive token, "abc"
token == <<97, 98, 99>>

\* self.corp_id : the configured corp id, "ww"
corp_id == <<119, 119>>

\* hashlib.sha1(text.encode()).hexdigest() : the digest is injective on the
\* inputs of the model ; "#" marks a digest, no field of a request holds it
sha1_hexdigest(text) == <<35>> \o text

\* a signature that leaves the nonce out of the digest
generate_signature_without_nonce(self_token, timestamp, nonce, echostr) ==
    sha1_hexdigest(join(sorted(<<self_token, timestamp, echostr>>)))

\* WeChatCrypto.generate_signature of an object whose token is self_token
\* a signature over the four texts in the order of the fields, unsorted
generate_signature_unsorted(self_token, timestamp, nonce, echostr) ==
    sha1_hexdigest(join(<<self_token, timestamp, nonce, echostr>>))

generate_signature_as(self_token, timestamp, nonce, echostr) ==
    LET data == sorted(<<self_token, timestamp, nonce, echostr>>)
    IN  sha1_hexdigest(join(data))

\* WeChatCrypto.verify_signature of an object whose token is self_token
verify_signature_as(self_token, signature, timestamp, nonce, echostr) ==
    LET expected == generate_signature_as(self_token, timestamp, nonce, echostr)
    IN  signature = expected

\* the two methods of the server's object
generate_signature(timestamp, nonce, echostr) ==
    generate_signature_as(token, timestamp, nonce, echostr)

verify_signature(signature, timestamp, nonce, echostr) ==
    verify_signature_as(token, signature, timestamp, nonce, echostr)

\* AES-256-CBC under self.aes_key with iv = self.aes_key[:16], no padding of
\* its own : a bijection on the byte strings of whole 16-byte blocks, each
\* output byte chained to all bytes before it.  finalize() raises ValueError
\* when the data is not whole blocks.
RECURSIVE aes_chain(_, _)
aes_chain(data, prev) ==
    IF data = <<>> THEN <<>>
    ELSE LET c == (data[1] + prev + 89) % 256
         IN  <<c>> \o aes_chain(Tail(data), c)

aes_cbc_encrypt(data) ==
    IF Len(data) % 16 # 0 THEN [raised |-> TRUE, data |-> <<>>]
    ELSE [raised |-> FALSE, data |-> aes_chain(data, 23)]

aes_cbc_decrypt(data) ==
    IF Len(data) % 16 # 0 THEN [raised |-> TRUE, data |-> <<>>]
    ELSE [raised |-> FALSE,
          data |-> [i \in 1..Len(data) |->
                      (data[i] - (IF i = 1 THEN 23 ELSE data[i - 1]) - 89) % 256]]

DecryptRaised == [raised |-> TRUE, corp_id |-> <<>>, content |-> <<>>]

\* WeChatCrypto.decrypt from "msg_len = ..." on : the fields of the unpadded
\* plaintext, random(16) + msg_len(4) + msg + corp_id_len(4) + corp_id
decrypt_fields(decrypted) ==
    LET length_bytes == Slice(decrypted, 16, 20)
        msg_len   == unpack_be32(length_bytes)
        message   == Slice(decrypted, 20, 20 + msg_len.value)
        corp_id_len_bytes ==
            Slice(decrypted, 20 + msg_len.value, 20 + msg_len.value + 4)
        corp_id_len == unpack_be32(corp_id_len_bytes)
        corp_bytes == Slice(decrypted, 20 + msg_len.value + 4,
                            20 + msg_len.value + 4 + corp_id_len.value)
        corp_text == utf8_decode(corp_bytes)
        msg_text  == utf8_decode(message)
    IN  IF msg_len.raised THEN DecryptRaised              \* struct.error
        ELSE IF corp_id_len.raised THEN DecryptRaised     \* struct.error
        ELSE IF corp_text.raised THEN DecryptRaised       \* UnicodeDecodeError
        ELSE IF msg_text.raised THEN DecryptRaised        \* UnicodeDecodeError
        ELSE [raised |-> FALSE, corp_id |-> corp_text.text,
              content |-> msg_text.text]

\* WeChatCrypto.decrypt from "pad_len = decrypted[-1]" on ; plain is what the
\* decryptor gave
decrypt_unpad(plain) ==
    IF plain.raised THEN DecryptRaised                    \* ValueError
    ELSE IF plain.data = <<>> THEN DecryptRaised          \* IndexError
    ELSE decrypt_fields(DropLast(plain.data, plain.data[Len(plain.data)]))

\* WeChatCrypto.decrypt : (corp_id, content), or an exception
decrypt(encrypted_text) ==
    LET encrypted == b64decode(encrypted_text)
    IN  IF encrypted.raised THEN DecryptRaised            \* binascii.Error
        ELSE decrypt_unpad(aes_cbc_decrypt(encrypted.data))

\* a padding that adds nothing to data that is whole 32-byte blocks already
encrypt_padded_to_fit(self_corp_id, random_bytes, message) ==
    LET data == random_bytes \o pack_be32(Len(utf8_encode(message)))
                \o utf8_encode(message)
                \o pack_be32(Len(utf8_encode(self_corp_id)))
                \o utf8_encode(self_corp_id)
        pad_len == (32 - (Len(data) % 32)) % 32
    IN  data \o [i \in 1..pad_len |-> pad_len]

\* WeChatCrypto.encrypt up to the padding : the buffer that is enciphered ;
\* self_corp_id is self.corp_id, random_bytes the value of os.urandom(16)
encrypt_padded(self_corp_id, random_bytes, message) ==
    LET msg_bytes     == utf8_encode(message)
        msg_len       == pack_be32(Len(msg_bytes))
        corp_id_bytes == utf8_encode(self_corp_id)
        corp_id_len   == pack_be32(Len(corp_id_bytes))
        data    == random_bytes \o msg_len \o msg_bytes \o corp_id_len \o corp_id_bytes
        pad_len == 32 - (Len(data) % 32)
    IN  data \o [i \in 1..pad_len |-> pad_len]

\* WeChatCrypto.encrypt of an object whose corp_id is self_corp_id
encrypt_as(self_corp_id, random_bytes, message) ==
    b64encode(aes_cbc_encrypt(encrypt_padded(self_corp_id, random_bytes, message)).data)

\* WeChatCrypto.encrypt of the server's object
encrypt(random_bytes, message) == encrypt_as(corp_id, random_bytes, message)

(***************************************************************************)
(* Inputs of the model                                                     *)
(***************************************************************************)

\* the number of session-<n>.jsonl files an agent may leave in a workspace
MaxSessionFiles == 1

\* user ids : "a:b", "a_b"
UserIds == << <<97, 58, 98>>, <<97, 95, 98>> >>

\* message contents : "/help", "/new", "/status", "/run x", "x", "/bad"
Contents ==
    << <<47, 104, 101, 108, 112>>, <<47, 110, 101, 119>>,
       <<47, 115, 116, 97, 116, 117, 115>>, <<47, 114, 117, 110, 32, 120>>,
       <<120>>, <<47, 98, 97, 100>> >>

TextFields(from_user, content, create_time) ==
    [MsgType |-> <<116, 101, 120, 116>>, FromUserName |-> from_user,
     Content |-> content, AgentID |-> <<49>>, CreateTime |-> create_time]

XmlDocument(fields) ==
    [raised |-> FALSE, data |-> [xml |-> [none |-> FALSE, fields |-> fields]]]

\* What the markup parser makes of the documents of the model: the text
\* messages of every user, then an image message (with a Content "/new"), a
\* text message with the CreateTime "abc", one without FromUserName, one with
\* an empty Content, the empty element <xml/> (xmltodict gives {"xml": None}),
\* a document with another root element, and a text message without
\* FromUserName and with the CreateTime "abc".
Documents ==
    [i \in 1..(Len(UserIds) * Len(Contents)) |->
        XmlDocument(TextFields(UserIds[((i - 1) \div Len(Contents)) + 1],
                               Contents[((i - 1) % Len(Contents)) + 1],
                               <<49, 55>>))]
    \o << XmlDocument([MsgType |-> <<105, 109, 97, 103, 101>>,
                       FromUserName |-> UserIds[1], Content |-> Contents[2],
                       AgentID |-> <<49>>, CreateTime |-> <<49, 55>>]),
          XmlDocument(TextFields(UserIds[1], Contents[1], <<97, 98, 99>>)),
          XmlDocument([MsgType |-> <<116, 101, 120, 116>>,
                       Content |-> Contents[1], CreateTime |-> <<49, 55>>]),
          XmlDocument(TextFields(UserIds[1], <<>>, <<49, 55>>)),
          [raised |-> FALSE, data |-> [xml |-> [none |-> TRUE, fields |-> <<>>]]],
          [raised |-> FALSE,
           data |-> [html |-> [none |-> FALSE, fields |-> <<>>]]],
          XmlDocument([MsgType |-> <<116, 101, 120, 116>>,
                       Content |-> Contents[1], CreateTime |-> <<97, 98, 99>>]) >>

\* the text of document i : the one character chr(32 + i)
DocumentText(i) == <<32 + i>>

\* xmltodict.parse(text) : any other text is not well-formed markup and raises
xmltodict_parse(text) ==
    IF Len(text) = 1 /\ (text[1] - 32) \in DOMAIN Documents
    THEN Documents[text[1] - 32]
    ELSE [raised |-> TRUE, data |-> <<>>]

\* dict.get(key, default)
dict_get(d, key, default) == IF key \in DOMAIN d THEN d[key] ELSE default

\* d[key] = value
dict_set(d, key, value) ==
    [k \in (DOMAIN d) \cup {key} |-> IF k = key THEN value ELSE d[k]]

\* int(text) : ValueError unless the text is decimal digits
RECURSIVE digits_value(_)
digits_value(text) ==
    IF text = <<>> THEN 0
    ELSE digits_value(SubSeq(text, 1, Len(text) - 1)) * 10 + (text[Len(text)] - 48)

int(text) ==
    IF text # <<>> /\ \A i \in 1..Len(text) : text[i] >= 48 /\ text[i] <= 57
    THEN [raised |-> FALSE, value |-> digits_value(text)]
    ELSE [raised |-> TRUE, value |-> 0]

(***************************************************************************)
(* WeChatMessageHandler (src/wechat/handler.py)                            *)
(* A result carries "calls", the codec calls made, in order.               *)
(***************************************************************************)

CompareCall(text, ok) == [op |-> "compare_signature", text |-> text, ok |-> ok]

DecryptCall(text, ok) == [op |-> "decrypt", text |-> text, ok |-> ok]

\* verify_callback once the signature has been compared and has matched ;
\* compared records the comparison made, dec is what
\* self.crypto.decrypt(echostr) gave, its exception leaves the method
verify_callback_decrypted(compared, echostr, dec) ==
    [raised |-> dec.raised, none |-> FALSE, value |-> dec.content,
     calls |-> <<compared, DecryptCall(echostr, ~dec.raised)>>]

verify_callback(msg_signature, timestamp, nonce, echostr) ==
    LET compared ==
          CompareCall(echostr,
                      verify_signature(msg_signature, timestamp, nonce, echostr))
    IN  IF ~compared.ok
        THEN [raised |-> FALSE, none |-> TRUE, value |-> <<>>,
              calls |-> <<compared>>]
        ELSE verify_callback_decrypted(compared, echostr, decrypt(echostr))

NoMessage ==
    [from_user |-> <<>>, content |-> <<>>, msg_type |-> <<>>,
     agent_id |-> <<>>, create_time |-> 0]

ParseNone(calls) ==
    [raised |-> FALSE, none |-> TRUE, message |-> NoMessage, calls |-> calls]

ParseRaised(calls) ==
    [raised |-> TRUE, none |-> TRUE, message |-> NoMessage, calls |-> calls]

\* a parse_message that does not look at MsgType and hands every message
\* on as a text message
parse_message_fields_any_type(calls, xml_dict, create_time) ==
    LET from_user == dict_get(xml_dict.fields, "FromUserName", <<>>)
        content  == dict_get(xml_dict.fields, "Content", <<>>)
        agent_id == dict_get(xml_dict.fields, "AgentID", <<>>)
    IN  IF xml_dict.none THEN ParseRaised(calls)
        ELSE IF create_time.raised THEN ParseRaised(calls)
        ELSE IF from_user = <<>> \/ content = <<>> THEN ParseNone(calls)
        ELSE [raised |-> FALSE, none |-> FALSE,
              message |-> [from_user |-> from_user, content |-> content,
                           msg_type |-> <<116, 101, 120, 116>>,
                           agent_id |-> agent_id,
                           create_time |-> create_time.value],
              calls |-> calls]

\* parse_message from "xml_dict = xml_dict.get('xml', {})" on ; xml_dict is
\* the value under "xml", create_time what int() made of its CreateTime
parse_message_fields(calls, xml_dict, create_time) ==
    LET msg_type == dict_get(xml_dict.fields, "MsgType", <<>>)
        from_user == dict_get(xml_dict.fields, "FromUserName", <<>>)
        content  == dict_get(xml_dict.fields, "Content", <<>>)
        agent_id == dict_get(xml_dict.fields, "AgentID", <<>>)
    IN  IF xml_dict.none THEN ParseRaised(calls)          \* AttributeError
        ELSE IF msg_type # <<116, 101, 120, 116>> THEN ParseNone(calls)
        ELSE IF create_time.raised THEN ParseRaised(calls)        \* ValueError
        ELSE IF from_user = <<>> \/ content = <<>> THEN ParseNone(calls)
        ELSE [raised |-> FALSE, none |-> FALSE,
              message |-> [from_user |-> from_user, content |-> content,
                           msg_type |-> msg_type, agent_id |-> agent_id,
                           create_time |-> create_time.value],
              calls |-> calls]

\* parse_message from the markup parser on ; parsed is what
\* xmltodict.parse(decrypted_xml) gave
parse_message_xml(calls, parsed) ==
    IF parsed.raised THEN ParseNone(calls)
    ELSE parse_message_fields(calls,
            dict_get(parsed.data, "xml", [none |-> FALSE, fields |-> <<>>]),
            int(dict_get(dict_get(parsed.data, "xml",
                                  [none |-> FALSE, fields |-> <<>>]).fields,
                         "CreateTime", <<48>>)))

\* parse_message once the signature has been compared and has matched ;
\* compared records the comparison made, dec is what
\* self.crypto.decrypt(encrypt_text) gave
parse_message_decrypted(compared, encrypt_text, dec) ==
    LET calls == <<compared, DecryptCall(encrypt_text, ~dec.raised)>>
    IN  IF dec.raised THEN ParseNone(calls)
        ELSE parse_message_xml(calls, xmltodict_parse(dec.content))

\* parse_message without the early return on a mismatch
parse_message_unchecked(msg_signature, timestamp, nonce, encrypt_text) ==
    parse_message_decrypted(
        CompareCall(encrypt_text,
            generate_signature(timestamp, nonce, encrypt_text) = msg_signature),
        encrypt_text, decrypt(encrypt_text))

parse_message(msg_signature, timestamp, nonce, encrypt_text) ==
    LET expected_sig == generate_signature(timestamp, nonce, encrypt_text)
        compared == CompareCall(encrypt_text, expected_sig = msg_signature)
    IN  IF expected_sig # msg_signature
        THEN ParseNone(<<compared>>)
        ELSE parse_message_decrypted(compared, encrypt_text, decrypt(encrypt_text))

(***************************************************************************)
(* src/server/app.py : commands and reply texts                            *)
(***************************************************************************)

\* parse_command : <<command, command_type>>
parse_command(content0) ==
    LET content == strip(content0)
    IN  IF content = <<47, 104, 101, 108, 112>> THEN << <<>>, "help" >>
        ELSE IF content = <<47, 110, 101, 119>> THEN << <<>>, "new" >>
        ELSE IF content = <<47, 115, 116, 97, 116, 117, 115>>
             THEN << <<>>, "status" >>
        ELSE IF startswith(content, <<47, 114, 117, 110, 32>>)
             THEN << strip(Slice(content, 5, Len(content))), "run" >>
        ELSE IF content # <<>> /\ ~startswith(content, <<47>>)
             THEN << content, "run" >>
        ELSE << <<>>, "unknown" >>

\* the dispatch of the handler in server.py on message.content.strip() :
\* <<command, branch>> ; it has no branch for "/status"
server_dispatch(content0) ==
    LET content == strip(content0)
    IN  IF content = <<47, 104, 101, 108, 112>> THEN << <<>>, "help" >>
        ELSE IF content = <<47, 110, 101, 119>> THEN << <<>>, "new" >>
        ELSE IF startswith(content, <<47, 114, 117, 110, 32>>)
             THEN << strip(Slice(content, 5, Len(content))), "run" >>
        ELSE IF content # <<>> /\ ~startswith(content, <<47>>)
             THEN << content, "run" >>
        ELSE << <<>>, "unknown" >>

\* str(n) for n >= 0
RECURSIVE str(_)
str(n) == IF n < 10 THEN <<48 + n>> ELSE str(n \div 10) \o <<48 + (n % 10)>>

\* get_help_text() ; the model keeps the first word of the literal, "iFlow"
get_help_text == <<105, 70, 108, 111, 119>>

\* the "/new" confirmation ; the model keeps its head, "✅ 已开始新会话"
NewSessionText == <<9989, 32, 24050, 24320, 22987, 26032, 20250, 35805>>

\* the progress notice, f"⏳ 正在执行：{command}"
ProgressText(command) ==
    <<9203, 32, 27491, 22312, 25191, 34892, 65306>> \o command

\* the reply to an unknown command ; its head, "无法识别的命令"
UnknownText == <<26080, 27861, 35782, 21035, 30340, 21629, 20196>>

\* the body of every acknowledgment, "success"
SuccessBody == <<115, 117, 99, 99, 101, 115, 115>>

\* Response(content=..., status_code=...)
Response(status_code, content) == [status_code |-> status_code, content |-> content]

NoResponse == Response(0, <<>>)

\* what the framework answers when a handler ends with an exception
InternalServerError == Response(500, <<>>)

\* the result of wechat_callback_get, given verify_callback's
wechat_callback_get(decrypted) ==
    IF decrypted.raised THEN InternalServerError
    ELSE IF ~decrypted.none /\ decrypted.value # <<>>
         THEN Response(200, decrypted.value)
    ELSE Response(403, <<39564, 35777, 22833, 36133>>)      \* "验证失败"

(***************************************************************************)
(* AIResult and the backends (src/ai/base.py, src/ai/iflow.py ; qwen.py is *)
(* the same code under another name and base directory)                    *)
(***************************************************************************)

\* AIResult ; error = None is the empty text (the code only tests it with "or")
AIResult(success, output, error) ==
    [success |-> success, output |-> output, error |-> error]

NoResult == AIResult(FALSE, <<>>, <<>>)

\* "命令执行超时（>120 秒）" ; its head, "命令执行超时"
TimeoutError == <<21629, 20196, 25191, 34892, 36229, 26102>>

\* "未找到 iflow 命令，请确保已安装 iFlow CLI" ; its head, "未找到 iflow 命令"
NotInstalledError ==
    <<26410, 25214, 21040, 32, 105, 102, 108, 111, 119, 32, 21629, 20196>>

\* f"执行错误：{e}" ; its head, "执行错误"
ExecuteError == <<25191, 34892, 38169, 35823>>

\* f"AI 后端 '{backend_name}' 不存在" ; "AI 后端不存在"
NoBackendError == <<65, 73, 32, 21518, 31471, 19981, 23384, 22312>>

\* "iflow", the default backend_name of the manager's methods
backend_name == <<105, 102, 108, 111, 119>>

\* self.workspace_base ; "ws"
workspace_base == <<119, 115>>

\* f"{user_id}:{backend_name}"
session_key(user_id) == user_id \o <<58>> \o backend_name

\* f"user:{user_id}"
session_id_of(user_id) == <<117, 115, 101, 114, 58>> \o user_id

\* a workspace path that uses the session id as it is
get_workspace_path_unsanitized(session_id) ==
    workspace_base \o <<47>> \o session_id

\* IFlowBackend._get_workspace_path
get_workspace_path(session_id) ==
    LET safe_name == replace(replace(session_id, 58, 95), 47, 95)
    IN  workspace_base \o <<47>> \o safe_name

\* the files an agent may write : <<"session", n>> is session-<n>.jsonl,
\* <<"output", 0>> is last_output.txt
Files == {<<"session", n>> : n \in 1..MaxSessionFiles} \cup {<<"output", 0>>}

\* workspace.glob("session-*.jsonl")
glob_sessions(files) == {f \in files : f[1] = "session"}

\* an rmtree that deletes nothing
rmtree_keeps(files, path) == files

\* shutil.rmtree(path), under "if workspace.exists()" : the file system
\* without the directory
rmtree(files, path) == [p \in (DOMAIN files) \ {path} |-> files[p]]

\* path.mkdir(parents=True, exist_ok=True)
mkdir(files, path) == IF path \in DOMAIN files THEN files ELSE dict_set(files, path, {})

\* IFlowBackend._clean_output : the two Node.js warnings removed, then
\* strip() ; no agent output of the model holds the warnings
clean_output(output) == strip(output)

\* an execute that does not look at the exit status
execute_result_any(returncode, output) ==
    AIResult(TRUE, clean_output(output), <<>>)

\* IFlowBackend.execute once communicate() has returned
execute_result(returncode, output) ==
    LET cleaned_output == clean_output(output)
    IN  IF returncode = 0
        THEN AIResult(TRUE,
                      IF cleaned_output # <<>> THEN cleaned_output
                      ELSE <<21629, 20196, 25191, 34892, 23436, 25104>>,
                      <<>>)
        ELSE AIResult(FALSE,
                      IF cleaned_output # <<>> THEN cleaned_output
                      ELSE <<21629, 20196, 25191, 34892, 22833, 36133>>
                           \o str(returncode),
                      <<>>)

\* a get_session_info that counts every file of the workspace
get_session_info_every_file(workspaces, files, session_id) ==
    IF session_id \notin DOMAIN workspaces
    THEN [session_id |-> session_id, has_session |-> FALSE, workspace |-> <<>>]
    ELSE [session_id |-> session_id, has_session |-> TRUE,
          workspace |-> workspaces[session_id],
          session_count |-> Cardinality(dict_get(files, workspaces[session_id], {}))]

\* IFlowBackend.get_session_info
get_session_info(workspaces, files, session_id) ==
    IF session_id \notin DOMAIN workspaces
    THEN [session_id |-> session_id, has_session |-> FALSE, workspace |-> <<>>]
    ELSE LET workspace == workspaces[session_id]
             session_files == IF workspace \in DOMAIN files
                              THEN glob_sessions(files[workspace]) ELSE {}
         IN  [session_id |-> session_id, has_session |-> TRUE,
              workspace |-> workspace,
              session_count |-> Cardinality(session_files)]

\* AISessionManager.get_status
get_status(registered, sessions, workspaces, files, user_id) ==
    IF backend_name \notin registered THEN [error |-> NoBackendError]
    ELSE LET session_id == dict_get(sessions, session_key(user_id), <<>>)
         IN  IF session_id # <<>>
             THEN get_session_info(workspaces, files, session_id)
                  @@ [has_session |-> TRUE, session_id |-> session_id,
                      backend |-> backend_name]
             ELSE [has_session |-> FALSE, backend |-> backend_name]

\* format_status_text ; "iFlow" stands for the heading "iFlow 服务状态"
format_status_text(status) ==
    IF "error" \in DOMAIN status
    THEN <<38169, 35823, 65306>> \o status.error
    ELSE <<105, 70, 108, 111, 119, 10, 10>>
         \o (IF status.has_session
             THEN <<24403, 21069, 20250, 35805, 65306>> \o status.session_id
                  \o <<10, 105, 70, 108, 111, 119, 32, 83, 101, 115, 115,
                       105, 111, 110, 58, 32, 26410, 30693>>
             ELSE <<24403, 21069, 20250, 35805, 65306, 26080>>)

\* the number of characters the run branch sends in one message
ChunkChars == 4000

\* the run branch's pieces of a successful output : the output itself when
\* it has at most ChunkChars characters, else output[i:i+4000] for i = 0,
\* 4000, ..
run_chunks(output) ==
    IF Len(output) <= ChunkChars THEN <<output>>
    ELSE [i \in 1..((Len(output) + ChunkChars - 1) \div ChunkChars) |->
             Slice(output, (i - 1) * ChunkChars, i * ChunkChars)]

\* the replies of the run branch to a result
run_replies(result) ==
    IF result.success
    THEN LET chunks == run_chunks(result.output)
         IN  IF Len(result.output) <= ChunkChars
             THEN << <<9989, 32>> \o result.output >>
             ELSE [i \in 1..Len(chunks) |->
                     <<91>> \o str(i) \o <<47>> \o str(Len(chunks)) \o <<93, 32>>
                     \o chunks[i]]
    ELSE LET error_msg == IF result.error # <<>> THEN result.error
                          ELSE result.output
         IN  << <<10060, 32>> \o error_msg >>

(***************************************************************************)
(* The byte chunker of server.py and of wechat.py                          *)
(***************************************************************************)

\* len(text.encode('utf-8'))
utf8_len(text) ==
    Len(text) + Cardinality({i \in DOMAIN text : text[i] >= 128})
              + Cardinality({i \in DOMAIN text : text[i] >= 2048})
              + Cardinality({i \in DOMAIN text : text[i] >= 65536})

\* for i in range(len(chunk_bytes) - 1, 0, -1) : the first i whose prefix
\* decodes, 0 when the loop ends without a break
split_cut(chunk_bytes) ==
    LET cuts == {i \in 1..(Len(chunk_bytes) - 1) :
                    ~utf8_decode(Slice(chunk_bytes, 0, i)).raised}
    IN  IF cuts = {} THEN 0 ELSE CHOOSE i \in cuts : \A j \in cuts : j <= i

RECURSIVE split_from(_, _, _)
\* the while loop of split_message_by_bytes from start on : [returns, chunks] ;
\* when no prefix of a chunk decodes, start stays and the loop never ends
split_from(encoded, max_bytes, start) ==
    IF start >= Len(encoded) THEN [returns |-> TRUE, chunks |-> <<>>]
    ELSE LET chunk_bytes == Slice(encoded, start, start + max_bytes)
             step == IF ~utf8_decode(chunk_bytes).raised THEN max_bytes
                     ELSE split_cut(chunk_bytes)
         IN  IF step = 0 THEN [returns |-> FALSE, chunks |-> <<>>]
             ELSE [returns |-> split_from(encoded, max_bytes, start + step).returns,
                   chunks |-> <<utf8_decode(Slice(chunk_bytes, 0, step)).text>>
                        \o split_from(encoded, max_bytes, start + step).chunks]

\* split_message_by_bytes(content, max_bytes) of server.py
split_message_by_bytes(content, max_bytes) ==
    IF utf8_len(content) <= max_bytes
    THEN [returns |-> TRUE, chunks |-> <<content>>]
    ELSE split_from(utf8_encode(content), max_bytes, 0)

\* WeChatClient._split_message(content, max_bytes) of wechat.py : the same
\* statements
split_message(content, max_bytes) ==
    IF utf8_len(content) <= max_bytes
    THEN [returns |-> TRUE, chunks |-> <<content>>]
    ELSE split_from(utf8_encode(content), max_bytes, 0)

(***************************************************************************)
(* The requests the platform may send                                      *)
(***************************************************************************)

\* the value os.urandom(16) gave when the sender enciphered the envelope
random_bytes == [i \in 1..16 |-> i]

\* the envelopes of the documents, the envelope of the text "xy" (no
\* markup), and "ABC", which is no base64 text
Envelopes ==
    {encrypt(random_bytes, DocumentText(i)) : i \in DOMAIN Documents}
    \cup {encrypt(random_bytes, <<120, 121>>), <<65, 66, 67>>}

\* the echo strings of a handshake : "hello" and "" enciphered, and "ABC"
EchoStrings ==
    {encrypt(random_bytes, <<104, 101, 108, 108, 111>>),
     encrypt(random_bytes, <<>>), <<65, 66, 67>>}

Request(method, msg_signature, text) ==
    [method |-> method, msg_signature |-> msg_signature,
     timestamp |-> <<49>>, nonce |-> <<50>>, text |-> text]

\* every request signed by the platform, and requests whose signature is the
\* digest of another text
Requests ==
    {Request("POST", generate_signature(<<49>>, <<50>>, e), e) : e \in Envelopes}
    \cup {Request("GET", generate_signature(<<49>>, <<50>>, e), e) : e \in EchoStrings}
    \cup {Request(m, sha1_hexdigest(<<120>>), e) :
            m \in {"GET", "POST"}, e \in {encrypt(random_bytes, <<>>), <<65, 66, 67>>}}

\* what the decoder makes of each request, computed once
Decoded ==
    [q \in Requests |->
        IF q.method = "GET"
        THEN verify_callback(q.msg_signature, q.timestamp, q.nonce, q.text)
        ELSE parse_message(q.msg_signature, q.timestamp, q.nonce, q.text)]

\* the markup document of a POST request that is correctly signed and can
\* be decrypted ; any other request has none
SignedDocument(q) ==
    IF q.method = "POST"
       /\ verify_signature(q.msg_signature, q.timestamp, q.nonce, q.text)
       /\ ~decrypt(q.text).raised
    THEN xmltodict_parse(decrypt(q.text).content)
    ELSE [raised |-> TRUE, data |-> <<>>]

\* the fields of the message of each request, computed once ; no field when
\* the request carries no message
MessageFields ==
    [q \in Requests |->
        LET doc == SignedDocument(q)
        IN  IF ~doc.raised /\ "xml" \in DOMAIN doc.data /\ ~doc.data.xml.none
            THEN doc.data.xml.fields ELSE <<>>]

\* what the agent may print, "" and " ok\n", and its exit status
AgentOutputs == {<<>>, <<32, 111, 107, 10>>}

ReturnCodes == {0, 1}

(***************************************************************************)
(* The server                                                              *)
(***************************************************************************)

VARIABLES
    backends,            \* AISessionManager._backends : the registered names
    user_sessions,       \* AISessionManager._user_sessions
    session_workspaces,  \* IFlowBackend._session_workspaces
    fs,                  \* the directories on disk : path -> files
    req,                 \* the request handlers, one coroutine each
    proc,                \* each handler's agent subprocess
    codec_calls,         \* the codec calls the last step made, in order
    probe                \* a call of a function on its own : arguments, result

vars == <<backends, user_sessions, session_workspaces, fs, req, proc, codec_calls,
          probe>>

\* the coroutines the event loop runs at once
Handlers == {"h1", "h2"}

\* "query" keeps the query string of a handshake, "spawns" counts the agents
\* the handler started and "outcome" names the way execute ended.
NoQuery == Request("", <<>>, <<>>)

Idle ==
    [pc |-> "idle", method |-> "", query |-> NoQuery, user_id |-> <<>>,
     command |-> <<>>, command_type |-> "", outbox |-> <<>>, then |-> "",
     result |-> NoResult, outcome |-> "", response |-> NoResponse,
     sent |-> <<>>, spawns |-> 0]

NoProc == [state |-> "none", cwd |-> <<>>, returncode |-> 0, output |-> <<>>,
           saw_missing |-> FALSE]

Alive(p) == p.state \in {"running", "killed"}

\* an event loop that could switch coroutines at every statement
EveryStatementSuspends == {}

\* The positions between which a coroutine runs without giving up the event
\* loop ; while one handler is there no other handler runs.
SyncPcs == {"create_session", "create_session_mkdir", "execute_command", "execute"}

OnLoop(h) == \A g \in Handlers \ {h} : req[g].pc \notin SyncPcs

\* no function is being called on its own
NoProbe == [op |-> "none", done |-> FALSE, arg |-> <<>>, out |-> <<>>]

\* the server after create_app : no session, no request, the base directory
ServerInit ==
    /\ backends \in {{backend_name}, {<<113, 119, 101, 110>>}}
    /\ user_sessions = <<>>
    /\ session_workspaces = <<>>
    /\ fs = dict_set(<<>>, workspace_base, {})
    /\ req = [h \in Handlers |-> Idle]
    /\ proc = [h \in Handlers |-> NoProc]
    /\ codec_calls = <<>>

Init == ServerInit /\ probe = NoProbe

\* the handler ends : return Response(content="success")
Respond(r) == [r EXCEPT !.pc = "done", !.response = Response(200, SuccessBody)]

\* the handler ends with an exception
Raise(r) == [r EXCEPT !.pc = "done", !.response = InternalServerError,
                      !.outbox = <<>>]

\* await wechat_client.send_text_message(user_id, text) for each text, then
\* the position "then"
Sending(r, texts, then) == [r EXCEPT !.pc = "send", !.outbox = texts, !.then = then]

\* wechat_callback_get : one step, it awaits nothing
CallbackGet(h, q) ==
    /\ req[h].pc = "idle" /\ OnLoop(h) /\ q.method = "GET"
    /\ codec_calls' = Decoded[q].calls
    /\ req' = [req EXCEPT ![h] = [@ EXCEPT !.pc = "done", !.method = "GET",
                            !.query = q,
                            !.response = wechat_callback_get(Decoded[q])]]
    /\ UNCHANGED <<probe, backends, user_sessions, session_workspaces, fs, proc>>

\* a dispatch whose status branch goes through the session creation
post_command_status_creates(r0, message, cmd, registered, status_text) ==
    LET r == [r0 EXCEPT !.user_id = message.from_user, !.command = cmd[1],
                        !.command_type = cmd[2]]
    IN  IF message.msg_type # <<116, 101, 120, 116>> THEN Respond(r0)
        ELSE IF cmd[2] = "help" THEN Sending(r, <<get_help_text>>, "respond")
        ELSE IF cmd[2] \in {"new", "status"}
             THEN IF backend_name \in registered
                  THEN [r EXCEPT !.pc = "create_session"]
                  ELSE Sending(r, <<NewSessionText>>, "respond")
        ELSE IF cmd[2] = "run"
             THEN Sending(r, <<ProgressText(cmd[1])>>, "execute_command")
        ELSE Sending(r, <<UnknownText>>, "respond")

\* wechat_callback_post, the branch of a text message : where the handler is
\* at its first await.  cmd is parse_command's pair, status_text the text of
\* the status reply.
post_command(r0, message, cmd, registered, status_text) ==
    LET r == [r0 EXCEPT !.user_id = message.from_user, !.command = cmd[1],
                        !.command_type = cmd[2]]
    IN  IF message.msg_type # <<116, 101, 120, 116>> THEN Respond(r0)
        ELSE IF cmd[2] = "help" THEN Sending(r, <<get_help_text>>, "respond")
        ELSE IF cmd[2] = "new"
             THEN IF backend_name \in registered
                  THEN [r EXCEPT !.pc = "create_session"]
                  ELSE Sending(r, <<NewSessionText>>, "respond")
        ELSE IF cmd[2] = "status" THEN Sending(r, <<status_text>>, "respond")
        ELSE IF cmd[2] = "run"
             THEN Sending(r, <<ProgressText(cmd[1])>>, "execute_command")
        ELSE Sending(r, <<UnknownText>>, "respond")

\* wechat_callback_post from the body to its first await ; parsed is what
\* parse_message gave
wechat_callback_post(r0, parsed, registered, sessions, workspaces, files) ==
    IF parsed.raised THEN Raise(r0)
    ELSE IF parsed.none THEN Respond(r0)
    ELSE post_command(r0, parsed.message,
            parse_command(strip(parsed.message.content)), registered,
            format_status_text(get_status(registered, sessions, workspaces,
                                          files, parsed.message.from_user)))

CallbackPost(h, q) ==
    /\ req[h].pc = "idle" /\ OnLoop(h) /\ q.method = "POST"
    /\ codec_calls' = Decoded[q].calls
    /\ req' = [req EXCEPT ![h] =
          wechat_callback_post([@ EXCEPT !.method = "POST"], Decoded[q],
                               backends, user_sessions, session_workspaces, fs)]
    /\ UNCHANGED <<probe, backends, user_sessions, session_workspaces, fs, proc>>

\* WeChatClient.send_text_message for the next text of the handler.
\* get_access_token() is called outside the try block : when the cached
\* token has passed its expiry time (at any send it may have) and no new one
\* can be fetched, its exception leaves the handler.  A transport exception
\* or an error code of the platform is logged and False returned, which the
\* handler does not read.
SendOutcomes == {"ok", "errcode", "exception", "token_error"}

\* a send that takes the addressee from a variable shared by the handlers,
\* which holds the user of whichever message was read last
send_text_message_to_latest(h, outcome) ==
    /\ req[h].pc = "send" /\ OnLoop(h)
    /\ LET r    == req[h]
           latest == IF \E g \in Handlers \ {h} : req[g].user_id # <<>>
                     THEN req[CHOOSE g \in Handlers \ {h} : req[g].user_id # <<>>].user_id
                     ELSE r.user_id
           rest == Tail(r.outbox)
           logged == [r EXCEPT !.outbox = rest,
                        !.sent = Append(@, [touser |-> latest,
                                            content |-> Head(r.outbox)])]
       IN  req' = [req EXCEPT ![h] =
              IF outcome = "token_error" THEN Raise(r)
              ELSE IF rest # <<>> THEN logged
              ELSE IF r.then = "respond" THEN Respond(logged)
              ELSE [logged EXCEPT !.pc = r.then]]
    /\ codec_calls' = <<>>
    /\ UNCHANGED <<probe, backends, user_sessions, session_workspaces, fs, proc>>

send_text_message(h, outcome) ==
    /\ req[h].pc = "send" /\ OnLoop(h)
    /\ LET r    == req[h]
           rest == Tail(r.outbox)
           logged == [r EXCEPT !.outbox = rest,
                        !.sent = Append(@, [touser |-> r.user_id,
                                            content |-> Head(r.outbox)])]
       IN  req' = [req EXCEPT ![h] =
              IF outcome = "token_error" THEN Raise(r)
              ELSE IF rest # <<>> THEN logged
              ELSE IF r.then = "respond" THEN Respond(logged)
              ELSE [logged EXCEPT !.pc = r.then]]
    /\ codec_calls' = <<>>
    /\ UNCHANGED <<probe, backends, user_sessions, session_workspaces, fs, proc>>

\* execute_command has its result : the run branch builds the replies
Reply(r, result, outcome) ==
    [Sending(r, run_replies(result), "respond") EXCEPT
        !.result = result, !.outcome = outcome]

\* AISessionManager.execute_command up to the session lookup
execute_command(h) ==
    /\ req[h].pc = "execute_command" /\ OnLoop(h)
    /\ LET session_id == dict_get(user_sessions, session_key(req[h].user_id), <<>>)
       IN  req' = [req EXCEPT ![h] =
              IF backend_name \notin backends
              THEN Reply(@, AIResult(FALSE, <<>>, NoBackendError), "no_backend")
              ELSE IF session_id = <<>> THEN [@ EXCEPT !.pc = "create_session"]
              ELSE [@ EXCEPT !.pc = "execute"]]
    /\ codec_calls' = <<>>
    /\ UNCHANGED <<probe, backends, user_sessions, session_workspaces, fs, proc>>

\* IFlowBackend.create_session : if workspace.exists(): shutil.rmtree(workspace)
create_session_rmtree(h) ==
    /\ req[h].pc = "create_session" /\ OnLoop(h)
    /\ fs' = rmtree(fs, get_workspace_path(session_id_of(req[h].user_id)))
    /\ req' = [req EXCEPT ![h].pc = "create_session_mkdir"]
    /\ codec_calls' = <<>>
    /\ UNCHANGED <<probe, backends, user_sessions, session_workspaces, proc>>

\* a creation that makes the directory and records the session of the user
\* but not the path of the session
create_session_mkdir_unmapped(h) ==
    /\ req[h].pc = "create_session_mkdir" /\ OnLoop(h)
    /\ LET session_id == session_id_of(req[h].user_id)
           workspace  == get_workspace_path(session_id)
       IN  /\ fs' = mkdir(fs, workspace)
           /\ session_workspaces' = session_workspaces
           /\ user_sessions' =
                 dict_set(user_sessions, session_key(req[h].user_id), session_id)
    /\ req' = [req EXCEPT ![h] =
          IF @.command_type = "new" THEN Sending(@, <<NewSessionText>>, "respond")
          ELSE [@ EXCEPT !.pc = "execute"]]
    /\ codec_calls' = <<>>
    /\ UNCHANGED <<probe, backends, proc>>

\* IFlowBackend.create_session from workspace.mkdir() on, and the manager's
\* self._user_sessions[session_key] = session_id after it
create_session_mkdir(h) ==
    /\ req[h].pc = "create_session_mkdir" /\ OnLoop(h)
    /\ LET session_id == session_id_of(req[h].user_id)
           workspace  == get_workspace_path(session_id)
       IN  /\ fs' = mkdir(fs, workspace)
           /\ session_workspaces' = dict_set(session_workspaces, session_id, workspace)
           /\ user_sessions' =
                 dict_set(user_sessions, session_key(req[h].user_id), session_id)
    /\ req' = [req EXCEPT ![h] =
          IF @.command_type = "new" THEN Sending(@, <<NewSessionText>>, "respond")
          ELSE [@ EXCEPT !.pc = "execute"]]
    /\ codec_calls' = <<>>
    /\ UNCHANGED <<probe, backends, proc>>

\* a _get_or_create_workspace that makes the directory anew at every call
get_or_create_workspace_anew(workspaces, files, session_id) ==
    LET workspace == get_workspace_path(session_id)
    IN  <<workspace, dict_set(workspaces, session_id, workspace),
          mkdir(rmtree(files, workspace), workspace)>>

\* IFlowBackend._get_or_create_workspace : <<workspace, maps, files>>
get_or_create_workspace(workspaces, files, session_id) ==
    IF session_id \notin DOMAIN workspaces
    THEN LET workspace == get_workspace_path(session_id)
         IN  <<workspace, dict_set(workspaces, session_id, workspace),
               mkdir(files, workspace)>>
    ELSE <<workspaces[session_id], workspaces, files>>

\* IFlowBackend.execute up to the await of communicate() : the workspace is
\* resolved and the agent spawned in it.  create_subprocess_exec raises
\* FileNotFoundError when there is no iflow executable (or no such cwd), and
\* may raise another OSError.
SpawnOutcomes == {"spawned", "FileNotFoundError", "OSError"}

\* an execute that holds a per-session lock : it spawns only when no agent of
\* the same user is alive
execute_one_at_a_time(h, outcome) ==
    /\ \A g \in Handlers \ {h} :
          req[g].user_id = req[h].user_id => ~Alive(proc[g])
    /\ req[h].pc = "execute" /\ OnLoop(h)
    /\ LET session_id == user_sessions[session_key(req[h].user_id)]
           got == get_or_create_workspace(session_workspaces, fs, session_id)
           r   == [req[h] EXCEPT !.spawns = @ + 1]
       IN  /\ session_workspaces' = got[2]
           /\ fs' = got[3]
           /\ outcome = "spawned" => got[1] \in DOMAIN got[3]
           /\ IF outcome = "spawned"
              THEN /\ proc' = [proc EXCEPT ![h] =
                                 [NoProc EXCEPT !.state = "running", !.cwd = got[1]]]
                   /\ req' = [req EXCEPT ![h] = [r EXCEPT !.pc = "communicate"]]
              ELSE /\ proc' = proc
                   /\ req' = [req EXCEPT ![h] =
                        IF outcome = "FileNotFoundError"
                        THEN Reply(r, AIResult(FALSE, <<>>, NotInstalledError),
                                   "not_installed")
                        ELSE Reply(r, AIResult(FALSE, <<>>, ExecuteError), "error")]
    /\ codec_calls' = <<>>
    /\ UNCHANGED <<probe, backends, user_sessions>>

execute(h, outcome) ==
    /\ req[h].pc = "execute" /\ OnLoop(h)
    /\ LET session_id == user_sessions[session_key(req[h].user_id)]
           got == get_or_create_workspace(session_workspaces, fs, session_id)
           r   == [req[h] EXCEPT !.spawns = @ + 1]
       IN  /\ session_workspaces' = got[2]
           /\ fs' = got[3]
           /\ outcome = "spawned" => got[1] \in DOMAIN got[3]
           /\ IF outcome = "spawned"
              THEN /\ proc' = [proc EXCEPT ![h] =
                                 [NoProc EXCEPT !.state = "running", !.cwd = got[1]]]
                   /\ req' = [req EXCEPT ![h] = [r EXCEPT !.pc = "communicate"]]
              ELSE /\ proc' = proc
                   /\ req' = [req EXCEPT ![h] =
                        IF outcome = "FileNotFoundError"
                        THEN Reply(r, AIResult(FALSE, <<>>, NotInstalledError),
                                   "not_installed")
                        ELSE Reply(r, AIResult(FALSE, <<>>, ExecuteError), "error")]
    /\ codec_calls' = <<>>
    /\ UNCHANGED <<probe, backends, user_sessions>>

\* await asyncio.wait_for(proc.communicate(), timeout=120.0) returns : the
\* agent has exited
communicate_returns(h) ==
    /\ req[h].pc = "communicate" /\ OnLoop(h)
    /\ proc[h].state = "exited"
    /\ req' = [req EXCEPT ![h] =
          Reply(@, execute_result(proc[h].returncode, proc[h].output),
                IF proc[h].returncode = 0 THEN "exit_zero" ELSE "exit_nonzero")]
    /\ codec_calls' = <<>>
    /\ UNCHANGED <<probe, backends, user_sessions, session_workspaces, fs, proc>>

\* a timeout branch that kills the agent and returns without proc.wait()
communicate_timeout_no_wait(h) ==
    /\ req[h].pc = "communicate" /\ OnLoop(h)
    /\ proc[h].state = "running"
    /\ proc' = [proc EXCEPT ![h].state = "killed"]
    /\ req' = [req EXCEPT ![h] =
          Reply(@, AIResult(FALSE, <<>>, TimeoutError), "timed_out")]
    /\ codec_calls' = <<>>
    /\ UNCHANGED <<probe, backends, user_sessions, session_workspaces, fs>>

\* asyncio.TimeoutError while the agent runs : proc.kill(), then
\* await proc.wait()
communicate_timeout(h) ==
    /\ req[h].pc = "communicate" /\ OnLoop(h)
    /\ proc[h].state = "running"
    /\ proc' = [proc EXCEPT ![h].state = "killed"]
    /\ req' = [req EXCEPT ![h].pc = "wait"]
    /\ codec_calls' = <<>>
    /\ UNCHANGED <<probe, backends, user_sessions, session_workspaces, fs>>

\* proc.wait() returns : the killed agent has exited
wait_returns(h) ==
    /\ req[h].pc = "wait" /\ OnLoop(h)
    /\ proc[h].state = "exited"
    /\ req' = [req EXCEPT ![h] =
          Reply(@, AIResult(FALSE, <<>>, TimeoutError), "timed_out")]
    /\ codec_calls' = <<>>
    /\ UNCHANGED <<probe, backends, user_sessions, session_workspaces, fs, proc>>

\* The agent is another process : it runs whatever the event loop does.  It
\* writes a file into its working directory, or finds the directory gone.
AgentWrites(h, f) ==
    /\ proc[h].state = "running"
    /\ \/ /\ proc[h].cwd \in DOMAIN fs
          /\ fs' = [fs EXCEPT ![proc[h].cwd] = @ \cup {f}]
          /\ proc' = proc
       \/ /\ proc[h].cwd \notin DOMAIN fs
          /\ proc' = [proc EXCEPT ![h].saw_missing = TRUE]
          /\ fs' = fs
    /\ codec_calls' = <<>>
    /\ UNCHANGED <<probe, backends, user_sessions, session_workspaces, req>>

\* the agent ends by itself
AgentExits(h, returncode, output) ==
    /\ proc[h].state = "running"
    /\ proc' = [proc EXCEPT ![h].state = "exited", ![h].returncode = returncode,
                            ![h].output = output]
    /\ codec_calls' = <<>>
    /\ UNCHANGED <<probe, backends, user_sessions, session_workspaces, fs, req>>

\* the agent dies of the kill signal
AgentKilled(h) ==
    /\ proc[h].state = "killed"
    /\ proc' = [proc EXCEPT ![h].state = "exited", ![h].returncode = -9]
    /\ codec_calls' = <<>>
    /\ UNCHANGED <<probe, backends, user_sessions, session_workspaces, fs, req>>

\* the response is on the wire : the coroutine is gone
Returned(h) ==
    /\ req[h].pc = "done" /\ OnLoop(h)
    /\ ~Alive(proc[h])
    /\ req' = [req EXCEPT ![h] = Idle]
    /\ proc' = [proc EXCEPT ![h] = NoProc]
    /\ codec_calls' = <<>>
    /\ UNCHANGED <<probe, backends, user_sessions, session_workspaces, fs>>

\* The process is stopped and started again while no request is in flight :
\* the maps are gone, the disk is as it was.
Restart ==
    /\ \A h \in Handlers : req[h].pc = "idle" /\ proc[h].state = "none"
    /\ user_sessions # <<>>
    /\ user_sessions' = <<>>
    /\ session_workspaces' = <<>>
    /\ codec_calls' = <<>>
    /\ UNCHANGED <<probe, backends, fs, req, proc>>

Next ==
    \/ \E h \in Handlers, q \in Requests : CallbackGet(h, q)
    \/ \E h \in Handlers, q \in Requests : CallbackPost(h, q)
    \/ \E h \in Handlers, o \in SendOutcomes : send_text_message(h, o)
    \/ \E h \in Handlers : execute_command(h)
    \/ \E h \in Handlers : create_session_rmtree(h)
    \/ \E h \in Handlers : create_session_mkdir(h)
    \/ \E h \in Handlers, o \in SpawnOutcomes : execute(h, o)
    \/ \E h \in Handlers : communicate_returns(h)
    \/ \E h \in Handlers : communicate_timeout(h)
    \/ \E h \in Handlers : wait_returns(h)
    \/ \E h \in Handlers, f \in Files : AgentWrites(h, f)
    \/ \E h \in Handlers, c \in ReturnCodes, o \in AgentOutputs : AgentExits(h, c, o)
    \/ \E h \in Handlers : AgentKilled(h)
    \/ \E h \in Handlers : Returned(h)
    \/ Restart

Spec == Init /\ [][Next]_vars

(***************************************************************************)
(* The functions called on their own : the arguments are drawn at the      *)
(* start, one step calls the function and keeps what it returned           *)
(***************************************************************************)

\* the variables of the server
server == <<backends, user_sessions, session_workspaces, fs, req, proc, codec_calls>>

Probe(op, arg) == [op |-> op, done |-> FALSE, arg |-> arg, out |-> <<>>]

\* the step that calls : out is what the call returned
Call(op, out) ==
    /\ probe.op = op /\ ~probe.done
    /\ probe' = [probe EXCEPT !.done = TRUE, !.out = out]
    /\ UNCHANGED server

\* the longest agent output, in messages of ChunkChars characters
MaxChunks == 2

\* n times the character c
Repeat(c, n) == [i \in 1..n |-> c]

\* agent outputs around the length the run branch sends in one message, of
\* "a" (1 byte) and of "中" (3 bytes)
RunOutputs ==
    {Repeat(c, n) : c \in {97, 20013},
                    n \in {1, 2} \cup {k * ChunkChars + d : k \in 1..MaxChunks, d \in {-1, 0, 1}}}

\* the results execute_command gives the run branch
RunResults ==
    {AIResult(TRUE, o, <<>>) : o \in RunOutputs}
    \cup {AIResult(FALSE, o, <<>>) : o \in RunOutputs}
    \cup {AIResult(FALSE, <<>>, e) :
            e \in {TimeoutError, NotInstalledError, ExecuteError, NoBackendError}}

\* wechat_callback_post, the run branch after execute_command returned
CallRunReplies == Call("run_replies", run_replies(probe.arg))

\* the longest text made of every combination of "/", " " and "x"
MaxContentChars == 3

RECURSIVE Texts(_, _)
\* the texts of at most n characters of the set chars
Texts(chars, n) ==
    IF n = 0 THEN {<<>>}
    ELSE LET shorter == Texts(chars, n - 1)
         IN  shorter \cup {<<c>> \o t : c \in chars, t \in {u \in shorter : Len(u) = n - 1}}

\* message contents : the commands of the table, each also with blanks around
\* it and with text after it, "/run" alone, and the short texts
CommandContents ==
    LET commands == {<<47, 104, 101, 108, 112>>, <<47, 110, 101, 119>>,
                     <<47, 115, 116, 97, 116, 117, 115>>, <<47, 114, 117, 110>>}
        tails == {<<>>, <<32>>, <<120>>, <<32, 120>>, <<32, 32, 120, 32>>, <<32, 47>>}
    IN  {pre \o c \o t : pre \in {<<>>, <<32>>}, c \in commands, t \in tails}
        \cup Texts({47, 32, 120}, MaxContentChars)

\* the classification of app.py and the dispatch of server.py
CallParseCommand == Call("parse_command", parse_command(probe.arg))

CallServerDispatch == Call("server_dispatch", server_dispatch(probe.arg))

\* the largest byte budget of the byte chunker
MaxSplitBytes == 5

\* the texts to split : of "a" (1 byte), "é" (2), "中" (3) and "😀" (4)
SplitTexts == Texts({97, 233, 20013, 128512}, MaxContentChars)

CallRunChunks ==
    Call("run_chunks", [returns |-> TRUE, chunks |-> run_chunks(probe.arg.content)])

CallSplitMessageByBytes ==
    Call("split_message_by_bytes",
         split_message_by_bytes(probe.arg.content, probe.arg.max_bytes))

CallSplitMessage ==
    Call("split_message", split_message(probe.arg.content, probe.arg.max_bytes))

\* the owner ids an object may be configured with : "ww" and "w中w"
CorpIds == {corp_id, <<119, 20013, 119>>}

\* the values of os.urandom(16) : 1 .. 16, and sixteen times 32
RandomPrefixes == {random_bytes, Repeat(32, 16)}

\* the contents to encipher : of "x" (1 byte) and "中" (3 bytes), the empty
\* one among them
EnvelopeContents == Texts({120, 20013}, MaxContentChars)

\* encrypt(message), then decrypt of what it returned
CallEncrypt ==
    Call("encrypt",
         [padded |-> encrypt_padded(probe.arg.corp_id, probe.arg.random_bytes,
                                    probe.arg.message),
          encrypted |-> encrypt_as(probe.arg.corp_id, probe.arg.random_bytes,
                                   probe.arg.message),
          decrypted |-> decrypt(encrypt_as(probe.arg.corp_id, probe.arg.random_bytes,
                                           probe.arg.message))])

\* the most content bytes of a deciphered buffer of the model
MaxBodyBytes == 8

\* the values of the last byte of a deciphered buffer
PadBytes == {0, 1, 2, 4, 5, 6, 12, 13, 16, 31, 32, 33, 255}

\* a deciphered buffer of 32 bytes : the random prefix, the declared content
\* length, then body times "x", the owner-id length field, "w" to the end,
\* and pad as the last byte
DecipheredBuffer(declared, body, owner_len, pad) ==
    random_bytes \o pack_be32(declared)
    \o Slice(Repeat(120, body) \o pack_be32(owner_len) \o Repeat(119, 12), 0, 11)
    \o <<pad>>

\* decrypt of the base64 text of the ciphertext of a buffer
CallDecrypt ==
    Call("decrypt", decrypt(b64encode(aes_cbc_encrypt(probe.arg.buffer).data)))

\* the longest timestamp and payload of a signed request
MaxFieldChars == 2

\* signed requests with one character to replace : fields is <<token,
\* timestamp, nonce, payload>>, which the field whose character at pos
\* becomes char, 5 for the signature
SignatureChanges ==
    LET fieldsets ==
          {<<tk, ts, nc, pl>> :
              tk \in {token, <<49>>},
              ts \in Texts({49, 50}, MaxFieldChars) \ {<<>>},
              nc \in {<<50>>, <<49, 50>>},
              pl \in Texts({49, 97}, MaxFieldChars) \ {<<>>}}
    IN  {[fields |-> f, which |-> w, pos |-> i, char |-> c] :
            f \in fieldsets, w \in 1..5, i \in 1..3, c \in {49, 50, 97}}

\* the text whose character is replaced : a field, or the signature
ChangedText(arg) ==
    IF arg.which = 5
    THEN generate_signature_as(arg.fields[1], arg.fields[2], arg.fields[3],
                               arg.fields[4])
    ELSE arg.fields[arg.which]

\* generate_signature, then verify_signature of what it returned, and
\* verify_signature again after the replacement
CallVerifySignature ==
    /\ probe.op = "verify_signature"
    /\ LET f   == probe.arg.fields
           sig == generate_signature_as(f[1], f[2], f[3], f[4])
           g   == IF probe.arg.which = 5 THEN f
                  ELSE [f EXCEPT ![probe.arg.which][probe.arg.pos] = probe.arg.char]
           changed_sig == IF probe.arg.which = 5
                          THEN [sig EXCEPT ![probe.arg.pos] = probe.arg.char]
                          ELSE sig
       IN  Call("verify_signature",
                [genuine |-> verify_signature_as(f[1], sig, f[2], f[3], f[4]),
                 changed |-> verify_signature_as(g[1], changed_sig, g[2], g[3], g[4])])

\* two assignments of timestamp, nonce and payload : texts of "1" and "2",
\* the empty text among them, so that different assignments can have the
\* same sorted concatenation
FieldAssignments ==
    {[fields |-> <<ts, nc, pl>>, other |-> <<ts2, nc2, pl2>>] :
        ts \in Texts({49, 50}, MaxFieldChars), nc \in {<<>>, <<49>>},
        pl \in {<<>>, <<50>>},
        ts2 \in Texts({49, 50}, MaxFieldChars), nc2 \in {<<>>, <<50>>},
        pl2 \in {<<>>, <<49>>, <<50>>}}

\* the orders of three fields
Permutations3 ==
    {<<1, 2, 3>>, <<1, 3, 2>>, <<2, 1, 3>>, <<2, 3, 1>>, <<3, 1, 2>>, <<3, 2, 1>>}

\* generate_signature of the fields, then verify_signature of what it
\* returned with the values in every order, and with the other assignment
CallGenerateSignature ==
    /\ probe.op = "generate_signature"
    /\ LET f   == probe.arg.fields
           o   == probe.arg.other
           sig == generate_signature(f[1], f[2], f[3])
       IN  Call("generate_signature",
                [signature |-> sig,
                 permuted |-> [p \in Permutations3 |->
                                 verify_signature(sig, f[p[1]], f[p[2]], f[p[3]])],
                 other |-> verify_signature(sig, o[1], o[2], o[3])])

Probes ==
    {Probe("run_replies", result) : result \in RunResults}
    \cup {Probe("generate_signature", arg) : arg \in FieldAssignments}
    \cup {Probe("verify_signature", arg) :
            arg \in {a \in SignatureChanges :
                        /\ a.pos <= Len(ChangedText(a))
                        /\ a.char # ChangedText(a)[a.pos]}}
    \cup {Probe("decrypt", [declared |-> m, pad |-> p,
                            buffer |-> DecipheredBuffer(m, k, c, p)]) :
            m \in 0..(MaxBodyBytes + 1), k \in 0..MaxBodyBytes, c \in 0..2,
            p \in PadBytes}
    \cup {Probe("encrypt", [corp_id |-> c, random_bytes |-> r, message |-> m]) :
            c \in CorpIds, r \in RandomPrefixes, m \in EnvelopeContents}
    \cup {Probe("run_chunks", [content |-> o, max_bytes |-> ChunkChars]) :
            o \in RunOutputs}
    \cup {Probe(op, [content |-> t, max_bytes |-> n]) :
            op \in {"split_message_by_bytes", "split_message"},
            t \in SplitTexts, n \in 1..MaxSplitBytes}
    \cup {Probe(op, content) : op \in {"parse_command", "server_dispatch"},
                               content \in CommandContents}

CallsInit == ServerInit /\ probe \in Probes

CallsNext ==
    \/ CallRunReplies
    \/ CallParseCommand
    \/ CallServerDispatch
    \/ CallRunChunks
    \/ CallSplitMessageByBytes
    \/ CallSplitMessage
    \/ CallEncrypt
    \/ CallDecrypt
    \/ CallVerifySignature
    \/ CallGenerateSignature

SpecCalls == CallsInit /\ [][CallsNext]_vars

(***************************************************************************)
(* Claims                                                                  *)
(***************************************************************************)

\* C1: every POST callback ends by returning the acknowledgment "success",
\* whatever happened while it was handled: a handler of a POST request that
\* has ended has answered 200 with the body "success".
C1_PostAlwaysAcknowledged ==
    \A h \in Handlers :
        (req[h].method = "POST" /\ req[h].pc = "done")
            => req[h].response = Response(200, SuccessBody)

\* C2: in verify_callback and in parse_message the signature is compared
\* first, and decrypt is called only after a comparison of the signature over
\* the same ciphertext has succeeded: in the codec calls of a step, every
\* decrypt call has before it a compare call on the same text that matched.
C2_DecryptOnlyAfterMatch ==
    \A i \in DOMAIN codec_calls :
        codec_calls[i].op = "decrypt"
            => \E j \in 1..(i - 1) :
                  /\ codec_calls[j].op = "compare_signature"
                  /\ codec_calls[j].text = codec_calls[i].text
                  /\ codec_calls[j].ok

\* a POST and a GET have each just decrypted, and a forged request has just
\* been turned away without a decrypt call
C2_Decrypted ==
    /\ \E i \in DOMAIN codec_calls : codec_calls[i].op = "decrypt"
    /\ \E h \in Handlers : req[h].method = "POST" /\ req[h].pc = "send"
    /\ \E h \in Handlers : req[h].method = "GET" /\ req[h].response.status_code = 200

\* C3: the handshake ends in one of two ways: rejected (the signature does
\* not match, 403) or verified (the signature matches, 200 with the decrypted
\* echo as the body); a matching signature always ends verified.
C3_HandshakeVerifiedOrRejected ==
    \A h \in Handlers :
        (req[h].method = "GET" /\ req[h].pc = "done")
            => LET q == req[h].query
               IN  IF verify_signature(q.msg_signature, q.timestamp, q.nonce, q.text)
                   THEN /\ req[h].response.status_code = 200
                        /\ ~decrypt(q.text).raised
                              => req[h].response.content = decrypt(q.text).content
                   ELSE req[h].response.status_code = 403

\* C4: the contents of a workspace are deleted only by an explicit /new; in
\* particular the first command of a user after a restart, when the session
\* maps are empty and the workspace is on disk, runs in the existing
\* directory with its contents intact: a handler of another command than
\* /new that passes through create_session with empty maps deletes no file
\* of any directory.
C4_WorkspaceSurvivesRestart ==
    [][\A h \in Handlers :
          (/\ create_session_rmtree(h)
           /\ req[h].command_type # "new"
           /\ user_sessions = <<>>)
              => \A path \in DOMAIN fs :
                    fs[path] \subseteq dict_get(fs', path, {})]_vars

\* C5: distinct user ids have distinct workspace directories, also ids that
\* hold ":", "/" or "_": two session ids of the workspace map never share a
\* directory.
C5_WorkspacesDistinct ==
    \A s1, s2 \in DOMAIN session_workspaces :
        s1 # s2 => session_workspaces[s1] # session_workspaces[s2]

\* C6: a reset is atomic for the commands of the same user: no agent finds
\* its working directory missing while a /new of its own user is between
\* deleting the directory and creating it again.
C6_ResetAtomic ==
    \A h, g \in Handlers :
        ~ /\ proc[h].saw_missing
          /\ req[g].pc = "create_session_mkdir"
          /\ req[g].command_type = "new"
          /\ req[g].user_id = req[h].user_id

C8_TimeoutReapsAgent ==
    \A h \in Handlers :
        /\ req[h].pc = "wait" => proc[h].state \in {"killed", "exited"}
        /\ req[h].outcome = "timed_out"
              => /\ proc[h].state = "exited"
                 /\ req[h].result = AIResult(FALSE, <<>>, TimeoutError)
        /\ req[h].result.error = TimeoutError
              => req[h].outcome = "timed_out" /\ ~Alive(proc[h])
        /\ req[h].outcome \in {"not_installed", "exit_nonzero"}
              => req[h].result # AIResult(FALSE, <<>>, TimeoutError)

\* a handler holds the timed-out result, its killed agent has exited
C8_TimedOut ==
    \E h \in Handlers :
        /\ req[h].outcome = "timed_out" /\ req[h].pc = "send"
        /\ proc[h].state = "exited" /\ proc[h].returncode = -9

\* C9: when a command times out the agent is started a second time in the
\* same workspace to summarise, and the reply is labelled as a fallback: a
\* handler that holds the timed-out result has started two agents and does
\* not send the plain error reply.
C9_TimeoutFallsBack ==
    \A h \in Handlers :
        req[h].outcome = "timed_out"
            => /\ req[h].spawns = 2
               /\ \A i \in DOMAIN req[h].outbox :
                      req[h].outbox[i] # <<10060, 32>> \o TimeoutError

\* C10: execute ends in exactly one outcome, decided by executable found,
\* timed out and exit status: success exactly when the agent was started,
\* exited by itself and with status 0; a non-zero status gives a failure
\* that carries the captured output; a missing executable gives its own
\* failure after one attempt to start the agent; and execute always returns
\* a result: a handler past execute holds an outcome.
C10_ExecuteOutcomes ==
    \A h \in Handlers :
        LET r == req[h]
            p == proc[h]
        IN  /\ (r.spawns > 0 /\ r.pc \in {"send", "done"})
                  => r.outcome \in {"exit_zero", "exit_nonzero", "timed_out",
                                    "not_installed", "error"}
            /\ r.result.success
                  <=> (r.outcome = "exit_zero" /\ p.state = "exited" /\ p.returncode = 0)
            /\ r.outcome = "exit_nonzero"
                  => /\ p.state = "exited" /\ p.returncode # 0
                     /\ ~r.result.success /\ r.result.error = <<>>
                     /\ r.result.output =
                           IF strip(p.output) # <<>> THEN strip(p.output)
                           ELSE <<21629, 20196, 25191, 34892, 22833, 36133>>
                                \o str(p.returncode)
            /\ r.outcome = "not_installed"
                  => /\ r.result = AIResult(FALSE, <<>>, NotInstalledError)
                     /\ r.spawns = 1 /\ p.state = "none"
            /\ r.outcome \in {"exit_zero", "exit_nonzero", "timed_out", "error"}
                  => r.result.error # NotInstalledError

\* a handler holds the failure of a non-zero exit with the captured output,
\* another the failure of a missing executable
C10_Classified ==
    /\ \E h \in Handlers :
          /\ req[h].outcome = "exit_nonzero"
          /\ req[h].result.output = <<111, 107>>
    /\ \E h \in Handlers : req[h].outcome = "not_installed"

\* C11: the reply that carries a run result starts with the failure marker
\* exactly when the result is a failure and with the success marker exactly
\* when it is a success, also when a long successful output is sent as
\* several messages: the first message of the replies to a result starts with
\* "✅" for a success and with "❌" for a failure.
C11_MarkerMatchesOutcome ==
    (probe.op = "run_replies" /\ probe.done)
        => /\ probe.out # <<>>
           /\ probe.out[1][1] = (IF probe.arg.success THEN 9989 ELSE 10060)

\* C12: the action taken for a text message is the function of its trimmed
\* content the command table gives, in the handler of app.py and in the one
\* of server.py: "/help" helps, "/new" resets, "/status" reports the status,
\* "/run " and a remainder runs the trimmed remainder, any other text that is
\* not empty and does not start with "/" is run whole, and everything else
\* gets the unrecognized-command reply.
C12_CommandTable ==
    (probe.op \in {"parse_command", "server_dispatch"} /\ probe.done)
        => LET trimmed == strip(probe.arg)
               action ==
                   IF trimmed = <<47, 104, 101, 108, 112>> THEN << <<>>, "help" >>
                   ELSE IF trimmed = <<47, 110, 101, 119>> THEN << <<>>, "new" >>
                   ELSE IF trimmed = <<47, 115, 116, 97, 116, 117, 115>>
                        THEN << <<>>, "status" >>
                   ELSE IF Len(trimmed) >= 5
                           /\ SubSeq(trimmed, 1, 5) = <<47, 114, 117, 110, 32>>
                        THEN << strip(SubSeq(trimmed, 6, Len(trimmed))), "run" >>
                   ELSE IF trimmed # <<>> /\ trimmed[1] # 47
                        THEN << trimmed, "run" >>
                   ELSE << <<>>, "unknown" >>
           IN  probe.out = action

\* C13: only run commands reach the execution engine: every step of a
\* handler of /help, /status or an unrecognized command leaves the
\* directories on disk, the manager's session map, the backend's workspace
\* map and the agent processes as they were, and the handler never starts an
\* agent: it only sends its reply and returns.
C13_OnlyRunReachesEngine ==
    [][\A h \in Handlers :
          (/\ req'[h] # req[h]
           /\ \/ req[h].command_type \in {"help", "status", "unknown"}
              \/ req'[h].command_type \in {"help", "status", "unknown"})
              => /\ fs' = fs
                 /\ user_sessions' = user_sessions
                 /\ session_workspaces' = session_workspaces
                 /\ proc' = proc
                 /\ req'[h].spawns = 0
                 /\ req'[h].pc \in {"send", "done", "idle"}]_vars

\* a /status and a /help or an unrecognized command have been answered to
\* the end while a session and a workspace with files in it exist
C13_AnsweredWithoutEngine ==
    \E h, g \in Handlers :
        /\ req[h].command_type = "status" /\ req[h].pc = "done"
        /\ Len(req[h].sent) = 1
        /\ req[g].command_type \in {"help", "unknown"} /\ req[g].pc = "done"
        /\ Len(req[g].sent) = 1
        /\ user_sessions # <<>>
        /\ \E path \in DOMAIN fs : fs[path] # {}

\* C14: a correctly signed and decryptable message whose MsgType is not
\* "text" is dropped silently: the step that handles it classifies no
\* command, starts no agent, touches no directory and no map, sends and
\* queues no chat reply, and ends the handler with the acknowledgment.
C14_NonTextDropped ==
    [][\A h \in Handlers, q \in Requests :
          (/\ req[h].pc = "idle" /\ req'[h].pc # "idle"
           /\ CallbackPost(h, q)
           /\ "MsgType" \in DOMAIN MessageFields[q]
           /\ MessageFields[q].MsgType # <<116, 101, 120, 116>>)
              => /\ req'[h].pc = "done"
                 /\ req'[h].response = Response(200, SuccessBody)
                 /\ req'[h].command_type = "" /\ req'[h].user_id = <<>>
                 /\ req'[h].outbox = <<>> /\ req'[h].sent = <<>>
                 /\ req'[h].spawns = 0
                 /\ UNCHANGED <<fs, user_sessions, session_workspaces, proc>>]_vars

\* the image message (which has a sender and the content "/new") has just
\* been decrypted and its handler has ended, while a session exists
C14_ImageHandled ==
    \E h \in Handlers, q \in Requests :
        /\ "MsgType" \in DOMAIN MessageFields[q]
        /\ MessageFields[q].MsgType = <<105, 109, 97, 103, 101>>
        /\ codec_calls = Decoded[q].calls
        /\ req[h].method = "POST" /\ req[h].pc = "done" /\ req[h].sent = <<>>
        /\ user_sessions # <<>>

\* C15: parse_message yields no message, which the caller ignores, whenever
\* the decoded text message has no from_user or an empty content, so that
\* every message that reaches the classification has both: the step that
\* handles such a message gets None from parse_message and ends with the
\* acknowledgment, and a step that classifies a command has a message with a
\* sender and a content.
C15_IncompleteMessageIgnored ==
    [][\A h \in Handlers, q \in Requests :
          (req[h].pc = "idle" /\ req'[h].pc # "idle" /\ CallbackPost(h, q))
              => /\ (/\ "MsgType" \in DOMAIN MessageFields[q]
                     /\ MessageFields[q].MsgType = <<116, 101, 120, 116>>
                     /\ \/ dict_get(MessageFields[q], "FromUserName", <<>>) = <<>>
                        \/ dict_get(MessageFields[q], "Content", <<>>) = <<>>)
                       => /\ ~Decoded[q].raised /\ Decoded[q].none
                          /\ req'[h].pc = "done"
                          /\ req'[h].response = Response(200, SuccessBody)
                          /\ req'[h].command_type = ""
                 /\ req'[h].command_type # ""
                       => /\ Decoded[q].message.from_user # <<>>
                          /\ Decoded[q].message.content # <<>>
                          /\ req'[h].user_id = Decoded[q].message.from_user]_vars

\* C16: for every text and byte budget N the chunker returns pieces whose
\* concatenation is the text, each of at most N bytes in UTF-8 and each a
\* whole number of code points, and the single piece [text] when the text has
\* at most N bytes; this holds for split_message_by_bytes, for
\* WeChatClient._split_message and for the slicing of the run branch (whose
\* budget is the 4000 of its slices).
C16_ChunksWithinBudget ==
    (probe.op \in {"run_chunks", "split_message_by_bytes", "split_message"}
     /\ probe.done)
        => /\ probe.out.returns
           /\ join(probe.out.chunks) = probe.arg.content
           /\ \A i \in DOMAIN probe.out.chunks :
                  utf8_len(probe.out.chunks[i]) <= probe.arg.max_bytes
           /\ utf8_len(probe.arg.content) <= probe.arg.max_bytes
                  => probe.out.chunks = <<probe.arg.content>>

\* C17: _get_or_create_workspace is idempotent: in every state in which the
\* event loop can call it (no reset is between its rmtree and its mkdir),
\* and for the session id of every user, a call returns the path of the
\* session id, after it the directory exists, every directory has the files
\* it had, and the map has the entry of the key and its other entries as
\* before; a second call returns the same and changes nothing; and a call
\* for a key already in the map changes neither the map nor the directories.
C17_GetOrCreateIdempotent ==
    (\A h \in Handlers : req[h].pc # "create_session_mkdir")
        => \A n \in DOMAIN UserIds :
              LET session_id == session_id_of(UserIds[n])
                  once  == get_or_create_workspace(session_workspaces, fs, session_id)
                  twice == get_or_create_workspace(once[2], once[3], session_id)
              IN  /\ once[1] = get_workspace_path(session_id)
                  /\ once[1] \in DOMAIN once[3]
                  /\ DOMAIN once[3] = (DOMAIN fs) \cup {once[1]}
                  /\ \A path \in DOMAIN fs : once[3][path] = fs[path]
                  /\ once[2] = dict_set(session_workspaces, session_id, once[1])
                  /\ twice = once
                  /\ session_id \in DOMAIN session_workspaces
                        => once = <<session_workspaces[session_id],
                                    session_workspaces, fs>>

\* a handler is about to resolve the workspace of its user, whose key is in
\* the map and whose directory holds files, while the key of the other user
\* is not in the map and that user's directory is on disk with files in it
C17_ResolvingPopulated ==
    \E h \in Handlers, n \in DOMAIN UserIds :
        /\ req[h].pc = "execute"
        /\ session_id_of(req[h].user_id) \in DOMAIN session_workspaces
        /\ fs[session_workspaces[session_id_of(req[h].user_id)]] # {}
        /\ session_id_of(UserIds[n]) \notin DOMAIN session_workspaces
        /\ get_workspace_path(session_id_of(UserIds[n])) \in DOMAIN fs
        /\ fs[get_workspace_path(session_id_of(UserIds[n]))] # {}

\* C18: the status lookup is read-only and total: in every state, for every
\* user, with the directory missing, empty or populated and the key in the
\* maps or not, get_status gives a status value (an error, or has_session
\* with the number of session files of the directory, none when it is
\* missing); and the step that handles /status changes no directory and no
\* map entry and goes on to send the text of that status.
C18_StatusReadOnlyTotal ==
    [][/\ \A n \in DOMAIN UserIds :
            LET status == get_status(backends, user_sessions, session_workspaces,
                                     fs, UserIds[n])
                key == session_key(UserIds[n])
            IN  IF backend_name \notin backends
                THEN DOMAIN status = {"error"}
                ELSE /\ "error" \notin DOMAIN status
                     /\ status.has_session = (key \in DOMAIN user_sessions)
                     /\ status.has_session
                           => status.session_count =
                                Cardinality({f \in dict_get(fs, status.workspace, {}) :
                                                f[1] = "session"})
       /\ \A h \in Handlers, q \in Requests :
            (/\ req[h].pc = "idle" /\ req'[h].command_type = "status"
             /\ CallbackPost(h, q))
                => /\ UNCHANGED <<fs, user_sessions, session_workspaces, backends>>
                   /\ req'[h].pc = "send"
                   /\ req'[h].outbox =
                         <<format_status_text(
                             get_status(backends, user_sessions, session_workspaces,
                                        fs, req'[h].user_id))>>]_vars

\* a /status has just been handled for a user who has a session and whose
\* workspace holds a session file and another file
C18_StatusOfPopulated ==
    \E h \in Handlers :
        /\ req[h].command_type = "status" /\ req[h].pc = "send"
        /\ session_key(req[h].user_id) \in DOMAIN user_sessions
        /\ session_id_of(req[h].user_id) \in DOMAIN session_workspaces
        /\ dict_get(fs, session_workspaces[session_id_of(req[h].user_id)], {})
              = {<<"session", 1>>, <<"output", 0>>}

\* C19: the envelope round trip: for every content and owner id, decrypt of
\* what encrypt returned does not raise and gives exactly the owner id and
\* the content, also for the empty content and for a content whose framed
\* length is a multiple of 32 already.
C19_EnvelopeRoundTrip ==
    (probe.op = "encrypt" /\ probe.done)
        => probe.out.decrypted = [raised |-> FALSE, corp_id |-> probe.arg.corp_id,
                                  content |-> probe.arg.message]

\* the content "中中" has made the round trip with the owner id "ww" : 16 + 4
\* + 6 + 4 + 2 = 32 bytes framed
C19_RoundTripOfWholeBlock ==
    /\ probe.op = "encrypt" /\ probe.done
    /\ probe.arg.message = <<20013, 20013>> /\ probe.arg.corp_id = corp_id
    /\ probe.out.decrypted.content = <<20013, 20013>>
    /\ Len(b64decode(probe.out.encrypted).data) = 64

\* C20: the buffer encrypt pads and enciphers has a length that is a multiple
\* of 32; the number of pad bytes is between 1 and 32, 32 when the framed
\* data is a multiple of 32 already, and every pad byte has the value of that
\* number; the base64 text returned decodes to the enciphered buffer, of the
\* same length.
C20_PaddingToBlocksOf32 ==
    (probe.op = "encrypt" /\ probe.done)
        => LET framed == 16 + 4 + utf8_len(probe.arg.message)
                            + 4 + utf8_len(probe.arg.corp_id)
               padded == probe.out.padded
               pad    == Len(padded) - framed
           IN  /\ Len(padded) % 32 = 0
               /\ pad \in 1..32
               /\ framed % 32 = 0 => pad = 32
               /\ \A i \in (framed + 1)..Len(padded) : padded[i] = pad
               /\ ~b64decode(probe.out.encrypted).raised
               /\ aes_cbc_decrypt(b64decode(probe.out.encrypted).data)
                     = [raised |-> FALSE, data |-> padded]

\* a buffer has got a whole block of 32 pad bytes : the owner id "w中w" and a
\* content of 3 bytes give 32 bytes framed
C20_FullPadBlock ==
    /\ probe.op = "encrypt" /\ probe.done
    /\ probe.arg.corp_id = <<119, 20013, 119>>
    /\ utf8_len(probe.arg.message) = 3
    /\ Len(probe.out.padded) = 64
    /\ probe.out.padded[64] = 32

\* C21: decrypt returns no (owner id, content) for a malformed buffer: when
\* the last byte of the deciphered buffer is 0 or more than its length, when
\* the declared content length runs over the unpadded buffer, or when the
\* unpadded buffer ends before the end of the owner-id length field, decrypt
\* raises; and a content it returns has the declared number of bytes.
C21_MalformedBufferRaises ==
    (probe.op = "decrypt" /\ probe.done)
        => LET size == Len(probe.arg.buffer)
               unpadded == IF probe.arg.pad = 0 \/ probe.arg.pad > size THEN 0
                           ELSE size - probe.arg.pad
           IN  /\ (probe.arg.pad = 0 \/ probe.arg.pad > size) => probe.out.raised
               /\ 20 + probe.arg.declared > unpadded => probe.out.raised
               /\ 20 + probe.arg.declared + 4 > unpadded => probe.out.raised
               /\ ~probe.out.raised
                     => utf8_len(probe.out.content) = probe.arg.declared

\* decrypt has raised for a buffer whose last byte is 0, the rest of which is
\* a well-formed frame of an empty content
C21_ZeroPadRaised ==
    /\ probe.op = "decrypt" /\ probe.done
    /\ probe.arg.pad = 0 /\ probe.arg.declared = 0
    /\ probe.arg.buffer = DecipheredBuffer(0, 0, 2, 0)
    /\ probe.out.raised

\* C22: for every token, timestamp, nonce and payload the signature that
\* generate_signature gives is verified by verify_signature, and after one
\* character of one of the four fields or of the signature is replaced by
\* another character the verification fails (the digest being injective).
C22_SignatureDetectsChange ==
    (probe.op = "verify_signature" /\ probe.done)
        => probe.out.genuine /\ ~probe.out.changed

\* a request whose fields sort in another order after the replacement has
\* been verified and, with the timestamp "12" changed to "a2", turned away
C22_ChangedFieldRejected ==
    /\ probe.op = "verify_signature" /\ probe.done
    /\ probe.arg.fields[2] = <<49, 50>> /\ probe.arg.which = 2
    /\ probe.arg.pos = 1 /\ probe.arg.char = 97
    /\ probe.out.genuine /\ ~probe.out.changed

\* C23: a failure while sending a reply is scoped to that one message: every
\* step in which a handler sends makes exactly one attempt for the next text
\* of its reply, addressed to its user, and goes on to the texts after it;
\* when none is left and the handler ends, it ends with the acknowledgment.
C23_SendFailureScoped ==
    [][\A h \in Handlers :
          (req[h].pc = "send" /\ req'[h] # req[h])
              => /\ req'[h].sent = Append(req[h].sent,
                                         [touser |-> req[h].user_id,
                                          content |-> Head(req[h].outbox)])
                 /\ req'[h].outbox = Tail(req[h].outbox)
                 /\ req'[h].pc = "done"
                       => req'[h].response = Response(200, SuccessBody)]_vars

\* C24: the lookup, creation and recording of a session for a key is atomic:
\* while a handler is creating the session for a first command, the key has
\* no recorded session (so no other handler has created one since the lookup,
\* and the creation runs at most once for the key), and no other handler's
\* agent for the same key is alive in the directory being reset.
C24_FirstCommandCreationAtomic ==
    \A h \in Handlers :
        (req[h].command_type = "run"
         /\ req[h].pc \in {"create_session", "create_session_mkdir"})
            => /\ session_key(req[h].user_id) \notin DOMAIN user_sessions
               /\ \A g \in Handlers \ {h} :
                     /\ req[g].pc \notin {"create_session", "create_session_mkdir"}
                     /\ req[g].user_id = req[h].user_id => ~Alive(proc[g])

\* two first commands of one user are in flight : one is creating the session,
\* the other is suspended in the send of its progress text
C24_TwoFirstCommands ==
    \E h \in Handlers : \E g \in Handlers \ {h} :
        /\ req[h].command_type = "run" /\ req[h].pc = "create_session_mkdir"
        /\ req[g].command_type = "run" /\ req[g].pc = "send"
        /\ req[g].then = "execute_command"
        /\ req[g].user_id = req[h].user_id
        /\ session_key(req[h].user_id) \notin DOMAIN user_sessions

\* C25: every entry of the backend's map from session id to path is the
\* workspace base joined with the sanitized session id: the id with every
\* ":" and every "/" turned into "_", and nothing else changed.
C25_MapHoldsSanitizedPaths ==
    \A session_id \in DOMAIN session_workspaces :
        LET path == session_workspaces[session_id]
            base == Len(workspace_base) + 1
        IN  /\ Len(path) = base + Len(session_id)
            /\ Slice(path, 0, Len(workspace_base)) = workspace_base
            /\ path[base] = 47
            /\ \A i \in 1..Len(session_id) :
                  path[base + i] = IF session_id[i] \in {58, 47} THEN 95
                                   ELSE session_id[i]

\* the sessions of both users are in the map, under ids that hold a ":"
C25_BothUsersMapped ==
    /\ \A i \in DOMAIN UserIds : session_id_of(UserIds[i]) \in DOMAIN session_workspaces
    /\ \E session_id \in DOMAIN session_workspaces :
          \E i \in 2..Len(session_id) : session_id[i] = 58 /\ i > 5

\* C26: there is no mutual exclusion per session: a request that is about to
\* spawn its agent while another request's agent is running for the same user
\* can spawn at once, without waiting for the other agent to end.
C26_SpawnNeverWaits ==
    \A h \in Handlers : \A g \in Handlers \ {h} :
        (/\ req[h].pc = "execute"
         /\ proc[g].state = "running"
         /\ req[g].user_id = req[h].user_id)
            => ENABLED execute(h, "spawned")

\* two agents are running at the same time in the workspace of one user
C26_TwoAgentsInOneWorkspace ==
    \E h \in Handlers : \E g \in Handlers \ {h} :
        /\ proc[h].state = "running" /\ proc[g].state = "running"
        /\ req[h].pc = "communicate" /\ req[g].pc = "communicate"
        /\ req[h].user_id = req[g].user_id
        /\ proc[h].cwd = proc[g].cwd
        /\ proc[h].cwd = get_workspace_path(session_id_of(req[h].user_id))

\* C27: the byte-budget chunker terminates for every text and every positive
\* budget, also when the budget is smaller than the UTF-8 width of the next
\* code point, and every chunk it emits is non-empty.
C27_ChunkerTerminates ==
    (probe.op \in {"split_message_by_bytes", "split_message"} /\ probe.done)
        => /\ probe.out.returns
           /\ \A i \in DOMAIN probe.out.chunks : probe.out.chunks[i] # <<>>

\* C28: every session id recorded for a user in _user_sessions has an entry
\* in the backend's _session_workspaces, and get_status for a user with a
\* recorded session is no error and never has has_session false.
C28_RecordedSessionIsMapped ==
    /\ \A key \in DOMAIN user_sessions :
          user_sessions[key] \in DOMAIN session_workspaces
    /\ \A n \in DOMAIN UserIds :
          session_key(UserIds[n]) \in DOMAIN user_sessions
              => LET status == get_status(backends, user_sessions,
                                          session_workspaces, fs, UserIds[n])
                 IN  /\ "error" \notin DOMAIN status
                     /\ status.has_session
                     /\ status.session_id = user_sessions[session_key(UserIds[n])]

\* the status of a user with a recorded session has been sent to the user
C28_StatusOfRecordedSent ==
    \E h \in Handlers :
        /\ req[h].command_type = "status" /\ req[h].pc = "done"
        /\ Len(req[h].sent) = 1
        /\ session_key(req[h].user_id) \in DOMAIN user_sessions
        /\ req[h].sent[1].content =
              format_status_text([has_session |-> TRUE,
                                  session_id |-> session_id_of(req[h].user_id)])

\* C29: the confirmation of /new is sent only if the workspace was reset: a
\* handler of a /new command that has the confirmation to send, or has sent
\* it, has the session of its user recorded; and while the backend is not
\* registered neither map nor any directory changes.
C29_ConfirmationOnlyAfterReset ==
    /\ \A h \in Handlers :
          (/\ req[h].command_type = "new"
           /\ \/ \E i \in DOMAIN req[h].outbox : req[h].outbox[i] = NewSessionText
              \/ \E i \in DOMAIN req[h].sent :
                    req[h].sent[i].content = NewSessionText)
              => /\ backend_name \in backends
                 /\ session_key(req[h].user_id) \in DOMAIN user_sessions
    /\ backend_name \notin backends
          => /\ user_sessions = <<>>
             /\ session_workspaces = <<>>
             /\ fs = dict_set(<<>>, workspace_base, {})

\* C30: every chat message sent while an inbound message is handled is
\* addressed to the sender of that message, however the handlers interleave:
\* the handler's user is the FromUserName of the message it took, stays so
\* until the handler ends, and is the addressee of every message it has sent.
C30_RepliesGoToTheSender ==
    [][\A h \in Handlers :
          /\ \A q \in Requests :
                (/\ req[h].pc = "idle" /\ req'[h].pc \notin {"idle", "done"}
                 /\ CallbackPost(h, q))
                    => req'[h].user_id = dict_get(MessageFields[q], "FromUserName", <<>>)
          /\ (req[h].pc # "idle" /\ req'[h].pc # "idle")
                => req'[h].user_id = req[h].user_id
          /\ \A i \in DOMAIN req'[h].sent :
                req'[h].sent[i].touser = req'[h].user_id]_vars

\* both handlers have sent replies, each to the sender of its own message,
\* and the two senders differ
C30_TwoSendersAnswered ==
    \E h \in Handlers : \E g \in Handlers \ {h} :
        /\ req[h].sent # <<>> /\ req[g].sent # <<>>
        /\ req[h].sent[1].touser = UserIds[1]
        /\ req[g].sent[1].touser = UserIds[2]
        /\ req[h].pc = "send" /\ req[g].pc = "communicate"

\* C31: the events of a run command occur in a fixed order: the progress
\* notice is sent before the agent is spawned; no reply with a result is sent
\* or queued before execute has returned; once it has, the messages sent and
\* those still to send are, in this order, the progress notice and the
\* replies of the one result, each once; and the acknowledgment is returned
\* last, when nothing is left to send, for every run command.
C31_RunEventsInOrder ==
    \A h \in Handlers :
        (req[h].command_type = "run" /\ req[h].pc # "idle")
            => LET r == req[h]
                   contents == [i \in DOMAIN r.sent |-> r.sent[i].content]
                   notice == ProgressText(r.command)
               IN  /\ (r.spawns > 0 \/ proc[h].state # "none")
                         => contents # <<>> /\ contents[1] = notice
                   /\ r.outcome = ""
                         => /\ contents \o r.outbox = <<notice>>
                            /\ r.result = NoResult
                   /\ r.outcome # ""
                         => contents \o r.outbox = <<notice>> \o run_replies(r.result)
                   /\ r.response # NoResponse <=> r.pc = "done"
                   /\ r.pc = "done"
                         => /\ r.outbox = <<>>
                            /\ r.outcome # ""
                            /\ r.response = Response(200, SuccessBody)

\* C32: the signature depends only on the sorted concatenation, without
\* separator, of the token and the three values: verify_signature accepts
\* the signature of an assignment for every permutation of its values among
\* timestamp, nonce and payload, and for every other assignment whose sorted
\* concatenation with the token is the same.
C32_SignatureOfSortedConcatenation ==
    (probe.op = "generate_signature" /\ probe.done)
        => LET f == probe.arg.fields
               o == probe.arg.other
           IN  /\ \A p \in Permutations3 : probe.out.permuted[p]
               /\ join(sorted(<<token>> \o f)) = join(sorted(<<token>> \o o))
                     => probe.out.other

\* the signature of ("1", "", "2") was accepted for ("12", "", ""), which is
\* no permutation of it
C32_RegroupedAccepted ==
    /\ probe.op = "generate_signature" /\ probe.done
    /\ probe.arg.fields = << <<49>>, <<>>, <<50>> >>
    /\ probe.arg.other = << <<49, 50>>, <<>>, <<>> >>
    /\ probe.out.other
    /\ \A p \in Permutations3 : probe.out.permuted[p]

====
